---- MODULE Spec2Model ----
(***************************************************************************)
(* Model of the LTM-Mirror worker (src/src/index.js): one `fetch` handler  *)
(* that exposes an object bucket under /static/ through GET, PUT, DELETE,  *)
(* with a pre-shared key required for PUT and DELETE.                      *)
(*                                                                         *)
(* Strings whose characters the code inspects (the URL pathname, the auth  *)
(* token, the secret) are sequences of one-character strings.  Message     *)
(* bodies and header values that the code only builds are TLA+ strings.    *)
(***************************************************************************)
EXTENDS Integers, Sequences, FiniteSets, TLC

VARIABLES
    env,        \* the configuration passed to fetch: AUTH_KEY_SECRET, MAX_CACHE_AGE
    bucket,     \* env.LIVETIMING_BUCKET: key -> stored object
    pc,         \* per invocation: "idle", "await", "settled", "done"
    request,    \* per invocation: the request being handled
    result,     \* per invocation: the outcome of its bucket call
    response,   \* per invocation: what the invocation produced
    script,     \* the round-trip client: key, body and position in its sequence
    log         \* the responses the round-trip client has received, in order

vars == <<env, bucket, pc, request, result, response, script, log>>

----------------------------------------------------------------------------
(* Bounds of the model *)

\* longest auth token / secret, in characters
MaxCredLen == 1
\* largest configured MAX_CACHE_AGE
MaxAge == 1

----------------------------------------------------------------------------
(* Strings *)

RECURSIVE Str(_)
\* the TLA+ string spelled by a sequence of characters
Str(s) == IF s = <<>> THEN "" ELSE Head(s) \o Str(Tail(s))

RECURSIVE Join(_, _)
\* Array.prototype.join
Join(a, sep) ==
    IF a = <<>> THEN ""
    ELSE IF Len(a) = 1 THEN a[1]
    ELSE a[1] \o sep \o Join(Tail(a), sep)

\* String.prototype.startsWith
startsWith(s, p) == Len(s) >= Len(p) /\ SubSeq(s, 1, Len(p)) = p

\* String.prototype.endsWith
endsWith(s, p) == Len(s) >= Len(p) /\ SubSeq(s, Len(s) - Len(p) + 1, Len(s)) = p

\* String.prototype.slice(n)
slice(s, n) == SubSeq(s, n + 1, Len(s))

\* Array.prototype.includes
includes(a, v) == \E i \in 1..Len(a) : a[i] = v

\* the characters credentials are made of: two of one UTF-8 byte, one of two
\* ("e'" stands for U+00E9); each is one UTF-16 code unit
CredChars == {"a", "b", "e'"}

\* the UTF-8 encoding of one character
Utf8(c) == CASE c = "a" -> <<97>>
             [] c = "b" -> <<98>>
             [] c = "e'" -> <<195, 169>>

\* String.prototype.length: the number of UTF-16 code units
length(s) == Len(s)

RECURSIVE encode(_)
\* TextEncoder.prototype.encode
encode(s) == IF s = <<>> THEN <<>> ELSE Utf8(Head(s)) \o encode(Tail(s))

\* Uint8Array.prototype.byteLength
byteLength(a) == Len(a)

\* crypto.subtle.timingSafeEqual, for arguments of equal byteLength
timingSafeEqual(a, b) == \A i \in 1..Len(a) : a[i] = b[i]

\* all strings over CredChars of at most n characters
CredStrings(n) == UNION {[1..k -> CredChars] : k \in 0..n}

----------------------------------------------------------------------------
(* The handler's constants *)

StaticPrefix_noSlash == <<"/", "s", "t", "a", "t", "i", "c">>

StaticPrefix == <<"/", "s", "t", "a", "t", "i", "c", "/">>

PrefixLen == 8

DefaultMaxAge == 3600

supportedMethods_withPost == <<"GET", "PUT", "DELETE", "POST">>

supportedMethods == <<"GET", "PUT", "DELETE">>

authenticatedMethods_putOnly == <<"PUT">>

authenticatedMethods == <<"PUT", "DELETE">>

PRESHARED_AUTH_HEADER_KEY == "X-FASTF1-LIVETIMING-MIRROR-AUTH"

----------------------------------------------------------------------------
(* Values *)

Handlers == {"h1", "h2"}

\* an optional value: a header or a configuration entry that may be absent
Absent == [present |-> FALSE, value |-> <<>>]
Some(v) == [present |-> TRUE, value |-> v]

\* storage keys and the upload bodies used as samples
Keys == {<<>>, <<"a", ".", "j", "s", "o", "n">>}
Bodies == {"x", "y"}

\* pathnames: one per key under /static/, and three outside it
UnderStatic(k) == <<"/", "s", "t", "a", "t", "i", "c", "/">> \o k
StaticPaths == {UnderStatic(k) : k \in Keys}
OtherPaths == {<<"/", "s", "t", "a", "t", "i", "c">>, <<"/">>, <<"/", "a">>}
Paths == StaticPaths \cup OtherPaths

Methods == {"GET", "PUT", "DELETE", "POST"}

\* the auth header of a request: absent, or any credential string
AuthHeaders == {Absent} \cup {Some(t) : t \in CredStrings(MaxCredLen)}

\* env.AUTH_KEY_SECRET: absent, or any credential string
Secrets == {Absent} \cup {Some(t) : t \in CredStrings(MaxCredLen)}

\* env.MAX_CACHE_AGE: absent, or a number of seconds
CacheAges == {[present |-> FALSE, value |-> 0]}
             \cup {[present |-> TRUE, value |-> n] : n \in 0..MaxAge}

Envs == [AUTH_KEY_SECRET : Secrets, MAX_CACHE_AGE : CacheAges]

\* a request: GET, DELETE and the unsupported methods carry no body
NoBody == ""
Requests ==
    {[method |-> m, pathname |-> p, auth |-> a, body |-> b] :
        m \in Methods, p \in Paths, a \in AuthHeaders, b \in Bodies \cup {NoBody}}
WellFormed(req) == (req.method = "PUT") = (req.body # NoBody)
NoRequest == [method |-> "", pathname |-> <<>>, auth |-> Absent, body |-> NoBody]

\* an object of the bucket; NullObject is what get() returns for a missing key
NullObject == [exists |-> FALSE, body |-> "", contentType |-> "", httpEtag |-> ""]

\* the entity tag the bucket derives from an object's content
HttpEtag(body) == "\"" \o body \o "\""

NoResult == [state |-> "none", object |-> NullObject, existed |-> FALSE]
Pending == [state |-> "pending", object |-> NullObject, existed |-> FALSE]

\* what an invocation produces: a Response, or a thrown error
NoResponse ==
    [kind |-> "none", status |-> 0, body |-> "", Allow |-> "",
     CacheControl |-> "", etag |-> "", ContentType |-> ""]
Response(body, status) ==
    [NoResponse EXCEPT !.kind = "response", !.body = body, !.status = status]
Thrown == [NoResponse EXCEPT !.kind = "error"]
\* not a result: the invocation is suspended on a bucket call
Suspended == [NoResponse EXCEPT !.kind = "await"]

----------------------------------------------------------------------------
(* The handler, lines 14-112 *)

\* line 22: the cache key is the pathname without the "/static/" prefix
KeyOf(pathname) == slice(pathname, PrefixLen)

\* line 24: env.MAX_CACHE_AGE || 3600 (undefined and 0 are both falsy)
CACHE_MAX_AGE(e) ==
    IF e.MAX_CACHE_AGE.present /\ e.MAX_CACHE_AGE.value # 0
        THEN e.MAX_CACHE_AGE.value
        ELSE DefaultMaxAge

\* line 35: request.headers.get(...) || ""
authToken(req) == IF req.auth.present THEN req.auth.value ELSE <<>>

SecretUndefined_orEmpty(e) == FALSE

\* line 38: reading .length of an undefined AUTH_KEY_SECRET throws a TypeError
SecretUndefined(e) == ~e.AUTH_KEY_SECRET.present

isAuthenticated_lengthOnly(token, secret) ==
    /\ length(token) = length(secret)
    /\ byteLength(encode(token)) = byteLength(encode(secret))

\* lines 34-46
isAuthenticated(token, secret) ==
    IF length(token) = length(secret)
        THEN LET a == encode(token)
                 b == encode(secret)
             IN  IF byteLength(a) = byteLength(b)
                     THEN timingSafeEqual(a, b)
                     ELSE FALSE
        ELSE FALSE

\* lines 50-55 and 106-111
MethodNotAllowed ==
    [Response("Method Not Allowed", 405) EXCEPT !.Allow = Join(supportedMethods, ", ")]

\* lines 69-74
contentTypeValue(key) ==
    IF endsWith(key, <<".", "j", "s", "o", "n", "S", "t", "r", "e", "a", "m">>)
        THEN "application/octet-stream"
    ELSE IF endsWith(key, <<".", "j", "s", "o", "n">>)
        THEN "application/json"
    ELSE ""

IsHealthCheck_never(key) == FALSE

\* line 83
IsHealthCheck(key) == key = <<>>

PutArguments_noBody(req) ==
    [key |-> KeyOf(req.pathname), body |-> NoBody,
     contentType |-> contentTypeValue(KeyOf(req.pathname))]

\* lines 75-80: the arguments of LIVETIMING_BUCKET.put
PutArguments(req) ==
    [key |-> KeyOf(req.pathname), body |-> req.body,
     contentType |-> contentTypeValue(KeyOf(req.pathname))]

\* lines 14-66, and the part of the switch that runs before the first await:
\* the Response returned, the error thrown, or Suspended on a bucket call
Begin(req, e) ==
    IF ~startsWith(req.pathname, StaticPrefix) THEN Response("Bad Request", 400)
    ELSE IF SecretUndefined(e) THEN Thrown
    ELSE IF ~includes(supportedMethods, req.method) THEN MethodNotAllowed
    ELSE IF /\ includes(authenticatedMethods, req.method)
            /\ ~isAuthenticated(authToken(req), e.AUTH_KEY_SECRET.value)
        THEN Response("Unauthorized", 401)
    ELSE CASE req.method = "PUT" -> Suspended
           [] req.method = "GET" ->
                IF IsHealthCheck(KeyOf(req.pathname))
                    THEN Response("Status OK", 200)
                    ELSE Suspended
           [] req.method = "DELETE" -> Suspended
           [] OTHER -> MethodNotAllowed

NotFound_never(object) == FALSE

\* line 89: object === null
NotFound(object) == ~object.exists

\* lines 93-100: the response for an object that was found
Found(object, e) ==
    [Response(object.body, 200) EXCEPT
        !.ContentType = object.contentType,
        !.etag = object.httpEtag,
        !.CacheControl = "public, max-age=" \o ToString(CACHE_MAX_AGE(e))]

\* lines 81, 89-100, 103: the code after the await, given the bucket's answer
Continue(req, res, e) ==
    IF res.state = "rejected" THEN Thrown
    ELSE CASE req.method = "PUT" ->
                Response("Put " \o Str(KeyOf(req.pathname)) \o " successfully!", 200)
           [] req.method = "GET" ->
                IF NotFound(res.object)
                    THEN Response("Object Not Found", 404)
                    ELSE Found(res.object, e)
           [] req.method = "DELETE" -> Response("Deleted!", 200)

----------------------------------------------------------------------------
(* The bucket *)

\* LIVETIMING_BUCKET.put(key, body, {httpMetadata: {contentType}})
put(b, key, body, contentType) ==
    [b EXCEPT ![key] = [exists |-> TRUE, body |-> body,
                        contentType |-> contentType, httpEtag |-> HttpEtag(body)]]

\* LIVETIMING_BUCKET.get(key)
get(b, key) == b[key]

\* LIVETIMING_BUCKET.delete(key)
delete(b, key) == [b EXCEPT ![key] = NullObject]

\* every content the bucket can have
Buckets ==
    [Keys -> {NullObject} \cup
             {[exists |-> TRUE, body |-> x, contentType |-> c, httpEtag |-> HttpEtag(x)] :
                 x \in Bodies, c \in {contentTypeValue(k) : k \in Keys}}]
ConsistentBucket(b) ==
    \A k \in Keys : b[k].exists => b[k].contentType = contentTypeValue(k)
EmptyBucket == [k \in Keys |-> NullObject]

----------------------------------------------------------------------------
(* Invocations of the handler *)

\* the runtime calls fetch(request, env): the handler runs up to its first
\* await, or to its return or throw when that comes first
Fetch(h, req) ==
    /\ pc[h] = "idle"
    /\ WellFormed(req)
    /\ request' = [request EXCEPT ![h] = req]
    /\ LET out == Begin(req, env)
       IN  IF out = Suspended
               THEN /\ pc' = [pc EXCEPT ![h] = "await"]
                    /\ result' = [result EXCEPT ![h] = Pending]
                    /\ UNCHANGED response
               ELSE /\ pc' = [pc EXCEPT ![h] = "done"]
                    /\ response' = [response EXCEPT ![h] = out]
                    /\ UNCHANGED result
    /\ UNCHANGED <<env, bucket>>

\* the bucket has a call of invocation h to serve
Called(h, method) ==
    /\ pc[h] = "await"
    /\ result[h].state = "pending"
    /\ request[h].method = method

\* line 75: the bucket stores the object and fulfils the promise
BucketPut(h) ==
    /\ Called(h, "PUT")
    /\ LET a == PutArguments(request[h])
       IN  /\ bucket' = put(bucket, a.key, a.body, a.contentType)
           /\ result' = [result EXCEPT ![h] =
                            [state |-> "fulfilled", object |-> bucket'[a.key],
                             existed |-> bucket[a.key].exists]]
    /\ UNCHANGED <<env, pc, request, response, script, log>>

\* line 87: the bucket looks the key up and fulfils the promise
BucketGet(h) ==
    /\ Called(h, "GET")
    /\ LET key == KeyOf(request[h].pathname)
       IN  result' = [result EXCEPT ![h] =
                         [state |-> "fulfilled", object |-> get(bucket, key),
                          existed |-> bucket[key].exists]]
    /\ UNCHANGED <<env, bucket, pc, request, response, script, log>>

\* line 102: the bucket removes the key and fulfils the promise
BucketDelete(h) ==
    /\ Called(h, "DELETE")
    /\ LET key == KeyOf(request[h].pathname)
       IN  /\ bucket' = delete(bucket, key)
           /\ result' = [result EXCEPT ![h] =
                            [state |-> "fulfilled", object |-> NullObject,
                             existed |-> bucket[key].exists]]
    /\ UNCHANGED <<env, pc, request, response, script, log>>

\* a bucket call fails: the promise is rejected and the bucket is unchanged
BucketFail(h) ==
    /\ pc[h] = "await"
    /\ result[h].state = "pending"
    /\ result' = [result EXCEPT ![h] = [@ EXCEPT !.state = "rejected"]]
    /\ UNCHANGED <<env, bucket, pc, request, response, script, log>>

Awaited_notAwaited(res) == TRUE

\* the await of lines 75, 87, 102: the handler continues once the promise settled
Awaited(res) == res.state # "pending"

\* the handler continues after its await and returns or throws
Resume(h) ==
    /\ pc[h] = "await"
    /\ Awaited(result[h])
    /\ response' = [response EXCEPT ![h] = Continue(request[h], result[h], env)]
    /\ pc' = [pc EXCEPT ![h] = "done"]
    /\ UNCHANGED <<env, bucket, request, result, script, log>>

\* the runtime delivers what the invocation produced; the invocation is over
Deliver(h) ==
    /\ pc[h] = "done"
    /\ pc' = [pc EXCEPT ![h] = "idle"]
    /\ request' = [request EXCEPT ![h] = NoRequest]
    /\ result' = [result EXCEPT ![h] = NoResult]
    /\ response' = [response EXCEPT ![h] = NoResponse]
    /\ UNCHANGED <<env, bucket>>

Receive(h, req) == Fetch(h, req) /\ UNCHANGED <<script, log>>

Return(h) == Deliver(h) /\ UNCHANGED <<script, log>>

NoScript == [key |-> <<>>, body |-> NoBody, pos |-> 0]

InitHandlers ==
    /\ pc = [h \in Handlers |-> "idle"]
    /\ request = [h \in Handlers |-> NoRequest]
    /\ result = [h \in Handlers |-> NoResult]
    /\ response = [h \in Handlers |-> NoResponse]

----------------------------------------------------------------------------
(* One invocation at a time, over every request and configuration *)

InitSerial ==
    /\ env \in Envs
    /\ bucket \in {b \in Buckets : ConsistentBucket(b)}
    /\ InitHandlers
    /\ script = NoScript
    /\ log = <<>>

NextSerial ==
    \/ \E req \in Requests : Receive("h1", req)
    \/ BucketPut("h1")
    \/ BucketGet("h1")
    \/ BucketDelete("h1")
    \/ BucketFail("h1")
    \/ Resume("h1")
    \/ Return("h1")

SpecSerial == InitSerial /\ [][NextSerial]_vars

----------------------------------------------------------------------------
(* Concurrent invocations *)

TheSecret == <<"a">>

ConcurrentRequests ==
    {req \in Requests :
        /\ req.pathname \in StaticPaths \cup {<<"/", "a">>}
        /\ req.auth \in {Absent, Some(<<"a">>), Some(<<"b">>)}}

Init ==
    /\ env \in {e \in Envs : e.AUTH_KEY_SECRET = Some(TheSecret)}
    /\ bucket = EmptyBucket
    /\ InitHandlers
    /\ script = NoScript
    /\ log = <<>>

Next ==
    \E h \in Handlers :
        \/ \E req \in ConcurrentRequests : Receive(h, req)
        \/ BucketPut(h)
        \/ BucketGet(h)
        \/ BucketDelete(h)
        \/ BucketFail(h)
        \/ Resume(h)
        \/ Return(h)

Spec == Init /\ [][Next]_vars

----------------------------------------------------------------------------
(* A client that runs PUT, GET, DELETE, GET on one key, one request after *)
(* the other, while other requests go to the other keys; it stops at the  *)
(* first request that ends in an error                                    *)

\* the client's request number pos; a is the auth header of its GETs
ScriptRequest(pos, a) ==
    [method |-> <<"PUT", "GET", "DELETE", "GET">>[pos + 1],
     pathname |-> UnderStatic(script.key),
     auth |-> IF pos \in {0, 2} THEN Some(env.AUTH_KEY_SECRET.value) ELSE a,
     body |-> IF pos = 0 THEN script.body ELSE NoBody]

\* the client sends its next request once the previous one was answered
ClientSend ==
    /\ script.pos < 4
    /\ Len(log) = script.pos
    /\ \A i \in 1..Len(log) : log[i].kind = "response"
    /\ \E a \in {Absent, Some(env.AUTH_KEY_SECRET.value)} :
            Fetch("h1", ScriptRequest(script.pos, a))
    /\ script' = [script EXCEPT !.pos = @ + 1]
    /\ UNCHANGED log

ClientReceive ==
    /\ Deliver("h1")
    /\ log' = Append(log, response["h1"])
    /\ UNCHANGED script

OtherReceive ==
    \E req \in ConcurrentRequests :
        /\ req.pathname \in StaticPaths => req.pathname # UnderStatic(script.key)
        /\ Receive("h2", req)

InitRoundTrip ==
    /\ env \in {e \in Envs : e.AUTH_KEY_SECRET = Some(TheSecret)}
    /\ bucket \in {b \in Buckets : ConsistentBucket(b)}
    /\ InitHandlers
    /\ \E k \in Keys, x \in Bodies : script = [key |-> k, body |-> x, pos |-> 0]
    /\ log = <<>>

NextRoundTrip ==
    \/ ClientSend
    \/ ClientReceive
    \/ OtherReceive
    \/ Return("h2")
    \/ \E h \in Handlers :
        \/ BucketPut(h)
        \/ BucketGet(h)
        \/ BucketDelete(h)
        \/ BucketFail(h)
        \/ Resume(h)

SpecRoundTrip == InitRoundTrip /\ [][NextRoundTrip]_vars

----------------------------------------------------------------------------
(* Vocabulary of the properties, stated apart from the handler's own tests *)

Done(h) == pc[h] = "done"

\* the pathname starts with /static/
IsStatic(pathname) == \E k \in Keys : pathname = UnderStatic(k)

\* the presented credential: the header's value, "" when there is no header
Credential(req) == IF req.auth.present THEN req.auth.value ELSE <<>>

SecretConfigured == env.AUTH_KEY_SECRET.present

\* the request carries the configured secret
HasSecret(req) == SecretConfigured /\ Credential(req) = env.AUTH_KEY_SECRET.value

Mutating(req) == req.method \in {"PUT", "DELETE"}

Answered(h, status) == response[h].kind = "response" /\ response[h].status = status

\* the invocation has called the bucket
CalledBucket(h) == result[h].state # "none"

----------------------------------------------------------------------------
(* C1 *)

\* C1: with a configured secret, a PUT or DELETE under /static/ is answered
\* 401 exactly when the presented credential differs from the secret.
C1_UnauthorizedIffWrongCredential ==
    \A h \in Handlers :
        (Done(h) /\ SecretConfigured /\ IsStatic(request[h].pathname)
                 /\ Mutating(request[h]))
            => (Answered(h, 401) <=> ~HasSecret(request[h]))

\* a credential of the secret's length and byte length, of other content, got 401
C1_Witness ==
    \E h \in Handlers :
        /\ Done(h) /\ Mutating(request[h]) /\ IsStatic(request[h].pathname)
        /\ env.AUTH_KEY_SECRET = Some(<<"a">>)
        /\ request[h].auth = Some(<<"b">>)
        /\ Answered(h, 401)

----------------------------------------------------------------------------
(* C2 *)

\* C2: without AUTH_KEY_SECRET no invocation reaches the bucket, the bucket
\* never changes, and no PUT or DELETE is answered 200.
C2_MissingSecretFailsClosed ==
    /\ [](~SecretConfigured =>
            \A h \in Handlers :
                /\ pc[h] # "await"
                /\ ~CalledBucket(h)
                /\ (Done(h) /\ Mutating(request[h])) => ~Answered(h, 200))
    /\ [][~SecretConfigured => bucket' = bucket]_vars

\* a PUT under /static/ without a header, no secret configured, ended in an error
C2_Witness ==
    \E h \in Handlers :
        /\ ~SecretConfigured
        /\ Done(h) /\ request[h].method = "PUT" /\ IsStatic(request[h].pathname)
        /\ ~request[h].auth.present
        /\ response[h].kind = "error"

----------------------------------------------------------------------------
(* C3 *)

\* C3: a request whose path does not start with /static/ is answered 400,
\* whatever its method, its credential and the configuration, and it never
\* calls the bucket.
C3_BadPathIs400 ==
    \A h \in Handlers :
        (pc[h] # "idle" /\ ~IsStatic(request[h].pathname))
            => /\ Done(h)
               /\ Answered(h, 400)
               /\ ~CalledBucket(h)

\* the path /static (no trailing slash), an unsupported method, no secret: 400
C3_Witness ==
    \E h \in Handlers :
        /\ Done(h) /\ Answered(h, 400)
        /\ request[h].pathname = <<"/", "s", "t", "a", "t", "i", "c">>
        /\ request[h].method = "POST"
        /\ ~SecretConfigured

----------------------------------------------------------------------------
(* C4 *)

Unsupported(req) == req.method \notin {"GET", "PUT", "DELETE"}

IsMethodNotAllowed(h) == Answered(h, 405) /\ response[h].Allow = "GET, PUT, DELETE"

\* C4 as claimed: an unsupported method under /static/ is answered 405 with
\* Allow "GET, PUT, DELETE", whatever the credential and the configuration.
C4_Original ==
    \A h \in Handlers :
        (Done(h) /\ IsStatic(request[h].pathname) /\ Unsupported(request[h]))
            => IsMethodNotAllowed(h)

\* C4 amended: an unsupported method under /static/ is answered 405 with
\* Allow "GET, PUT, DELETE", whatever the credential, in every configuration
\* that has AUTH_KEY_SECRET; without it the invocation ends in an error.
C4_UnsupportedIs405 ==
    \A h \in Handlers :
        (Done(h) /\ IsStatic(request[h].pathname) /\ Unsupported(request[h]))
            => IF SecretConfigured
                   THEN IsMethodNotAllowed(h)
                   ELSE response[h].kind = "error"

\* an unsupported method with a wrong credential got 405, not 401
C4_Witness ==
    \E h \in Handlers :
        /\ Done(h) /\ IsStatic(request[h].pathname) /\ Unsupported(request[h])
        /\ SecretConfigured /\ request[h].auth.present /\ ~HasSecret(request[h])
        /\ IsMethodNotAllowed(h)

----------------------------------------------------------------------------
(* C5 *)

\* the client got its four answers, none of them an error
RoundTripComplete ==
    /\ Len(log) = 4
    /\ \A i \in 1..4 : log[i].kind = "response"

\* 200, 200 with the body that was put, 200, 404
RoundTripAnswers ==
    /\ log[1].status = 200
    /\ log[2].status = 200 /\ log[2].body = script.body
    /\ log[3].status = 200
    /\ log[4].status = 404

\* C5 as claimed: for every key, authenticated PUT, GET, authenticated
\* DELETE, GET on that key, nothing else touching it, give 200, 200 with the
\* body that was put, 200, 404.
C5_Original == RoundTripComplete => RoundTripAnswers

\* C5 amended: the same for every non-empty key; on the empty key both GETs
\* are the health check, 200 "Status OK".
C5_RoundTrip ==
    RoundTripComplete =>
        IF script.key # <<>>
            THEN RoundTripAnswers
            ELSE /\ log[1].status = 200 /\ log[3].status = 200
                 /\ log[2].status = 200 /\ log[2].body = "Status OK"
                 /\ log[4] = log[2]

\* a complete round trip on a non-empty key, while the other invocation is
\* suspended on a call for another key
C5_Witness ==
    /\ RoundTripComplete
    /\ script.key # <<>>
    /\ script.body = "x"
    /\ log[1].body = "Put a.json successfully!"
    /\ log[2].body = "x"
    /\ log[4].status = 404
    /\ pc["h2"] = "await"

----------------------------------------------------------------------------
(* C6 *)

\* C6: GET /static/ is answered 200 "Status OK" and never calls the bucket,
\* whatever the bucket holds and whatever the credential header is (in a
\* configuration that has its required AUTH_KEY_SECRET).
C6_HealthCheck ==
    \A h \in Handlers :
        (pc[h] # "idle" /\ SecretConfigured /\ request[h].method = "GET"
                        /\ request[h].pathname = UnderStatic(<<>>))
            => /\ Done(h)
               /\ Answered(h, 200)
               /\ response[h].body = "Status OK"
               /\ ~CalledBucket(h)

\* the health check answered while an object is stored under the empty key,
\* to a request with a wrong credential
C6_Witness ==
    \E h \in Handlers :
        /\ Done(h) /\ request[h].method = "GET"
        /\ request[h].pathname = UnderStatic(<<>>)
        /\ bucket[<<>>].exists
        /\ request[h].auth.present /\ ~HasSecret(request[h])
        /\ response[h].body = "Status OK"

----------------------------------------------------------------------------
(* C7 *)

StoreKey(h) == CHOOSE k \in Keys : request[h].pathname = UnderStatic(k)

\* the bucket fulfils the call of invocation h in this step
Fulfils(h) == result[h].state = "pending" /\ result'[h].state = "fulfilled"

\* C7: a DELETE under /static/ with the secret is answered 200 "Deleted!"
\* (or ends in an error when the bucket rejects the call), whether or not the
\* key existed; when its bucket call completes the key is absent, a key that
\* is absent stays absent until a PUT to it is stored, and a GET that finds a
\* non-empty key absent is answered 404.
C7_Delete ==
    /\ [](\A h \in Handlers :
            /\ (Done(h) /\ request[h].method = "DELETE"
                        /\ IsStatic(request[h].pathname) /\ HasSecret(request[h]))
                => IF result[h].state = "fulfilled"
                       THEN Answered(h, 200) /\ response[h].body = "Deleted!"
                       ELSE result[h].state = "rejected" /\ response[h].kind = "error"
            /\ (Done(h) /\ request[h].method = "GET" /\ CalledBucket(h)
                        /\ result[h].state = "fulfilled" /\ ~result[h].existed)
                => Answered(h, 404))
    /\ [][/\ \A h \in Handlers :
                (pc[h] = "await" /\ request[h].method = "DELETE" /\ Fulfils(h))
                    => ~bucket'[StoreKey(h)].exists
          /\ \A k \in Keys :
                (~bucket[k].exists /\ bucket'[k].exists)
                    => \E h \in Handlers :
                          /\ pc[h] = "await" /\ request[h].method = "PUT"
                          /\ StoreKey(h) = k /\ Fulfils(h)]_vars

\* a DELETE of a key that did not exist was answered 200 "Deleted!", and a
\* GET of that key found it absent
C7_Witness ==
    \E h, g \in Handlers :
        /\ Done(h) /\ request[h].method = "DELETE" /\ HasSecret(request[h])
        /\ result[h].state = "fulfilled" /\ ~result[h].existed
        /\ response[h].body = "Deleted!"
        /\ Done(g) /\ request[g].method = "GET"
        /\ request[g].pathname = request[h].pathname
        /\ Answered(g, 404)

----------------------------------------------------------------------------
(* C8 *)

\* C8: an invocation answers "Put <key> successfully!" only once the bucket
\* has fulfilled its put of that request's body under that key, and a PUT
\* whose bucket call is rejected ends in an error.
C8_PutAnsweredAfterWrite ==
    \A h \in Handlers :
        (request[h].method = "PUT" /\ response[h].kind # "none")
            => /\ Answered(h, 200) =>
                    /\ result[h].state = "fulfilled"
                    /\ result[h].object.exists
                    /\ result[h].object.body = request[h].body
                    /\ response[h].body = "Put " \o Str(StoreKey(h)) \o " successfully!"
               /\ result[h].state = "rejected" => response[h].kind = "error"
               /\ result[h].state # "pending"

\* two PUTs of different bodies to one key: one answered 200 after its write,
\* the other rejected by the bucket and ended in an error
C8_Witness ==
    \E h, g \in Handlers :
        /\ Done(h) /\ request[h].method = "PUT" /\ Answered(h, 200)
        /\ Done(g) /\ request[g].method = "PUT"
        /\ request[g].pathname = request[h].pathname
        /\ request[g].body # request[h].body
        /\ result[g].state = "rejected" /\ response[g].kind = "error"

----------------------------------------------------------------------------
(* C9 *)

\* the configured number of seconds, 3600 when none is configured
ConfiguredMaxAge ==
    IF env.MAX_CACHE_AGE.present THEN env.MAX_CACHE_AGE.value ELSE 3600

\* C9: a GET that finds a non-empty key answers with Cache-Control
\* "public, max-age=<n>", n the configured MAX_CACHE_AGE (0 included), and
\* 3600 exactly when none is configured.
C9_CacheControl ==
    \A h \in Handlers :
        (Done(h) /\ request[h].method = "GET" /\ CalledBucket(h)
                 /\ result[h].state = "fulfilled" /\ result[h].existed)
            => /\ Answered(h, 200)
               /\ response[h].CacheControl =
                    "public, max-age=" \o ToString(ConfiguredMaxAge)

----------------------------------------------------------------------------
(* C10 *)

\* C10: the bucket changes only in a step in which it fulfils the call of a
\* PUT or DELETE under /static/ that carries the configured secret, and then
\* only at that request's key.
C10_Frame ==
    [][bucket' # bucket =>
        \E h \in Handlers :
            /\ pc[h] = "await" /\ Fulfils(h)
            /\ Mutating(request[h])
            /\ IsStatic(request[h].pathname)
            /\ HasSecret(request[h])
            /\ \A k \in Keys : k # StoreKey(h) => bucket'[k] = bucket[k]]_vars

\* a DELETE without the secret was answered 401 and a GET was answered while
\* the object that another PUT stored is still there
C10_Witness ==
    \E h, g \in Handlers :
        /\ Done(h) /\ request[h].method = "DELETE" /\ Answered(h, 401)
        /\ bucket[StoreKey(h)].exists
        /\ Done(g) /\ request[g].method = "GET"
        /\ request[g].pathname = request[h].pathname
        /\ response[g].body = bucket[StoreKey(h)].body

====
